---- MODULE Spec2Model ----
(***************************************************************************)
(* GraphRAG backend: the bounded conversation buffer (rag/baseline.py),    *)
(* the graph retriever (graph/retriever.py), the graph writer              *)
(* (graph/graph.py), the context formatter and the /chat handler           *)
(* (main.py).                                                              *)
(*                                                                         *)
(* Texts are kept as TLA+ strings.  A multi-line text is built by JoinNL,  *)
(* which is Python's "\n".join(lines).  User messages are single-line      *)
(* strings.                                                                *)
(***************************************************************************)
EXTENDS Integers, Sequences, FiniteSets, TLC

VARIABLES
    USER_MEMORY,   \* baseline.py _USER_MEMORY: user id -> deque of messages
    appended,      \* history: every message ever appended, per user
    lastCall,      \* the buffer operation performed by the last step
    input,         \* arguments of the pure function under check
    output,        \* its result, once applied
    graph,         \* content of the graph store
    req,           \* the /chat requests in flight, per handler slot
    returned,      \* the outcome of the /chat request that finished last
    turns          \* number of /chat requests received

\* ------------------------------------------------------------------------
\* Bounds of the model
\* ------------------------------------------------------------------------
MaxAppends == 6          \* appends per user explored by SpecBuffer
MaxRows == 2             \* rows per channel handed to _merge_contexts
MaxTurns == 2            \* /chat requests explored by Spec

\* ------------------------------------------------------------------------
\* Input domains
\* ------------------------------------------------------------------------
Users == {"u1", "u2"}
Slots == {1, 2}
Modes == {"graph", "baseline"}
Messages == {"Hello", "Explain Neo4j", "How does Neo4j support Graph RAG?"}
BufferMessages == {"Explain Neo4j", "How does Neo4j support Graph RAG?"}

\* ------------------------------------------------------------------------
\* Text helpers
\* ------------------------------------------------------------------------
RECURSIVE JoinNL(_)
\* "\n".join(lines)
JoinNL(lines) ==
    IF lines = <<>> THEN ""
    ELSE IF Len(lines) = 1 THEN lines[1]
    ELSE lines[1] \o "\n" \o JoinNL(Tail(lines))

\* ------------------------------------------------------------------------
\* rag/baseline.py
\* ------------------------------------------------------------------------
MAX_HISTORY_LENGTH == 5

\* a full deque that refuses the new entry instead of evicting the oldest
DequeAppendKeepOldest(d, x) ==
    IF Len(d) >= MAX_HISTORY_LENGTH THEN d ELSE Append(d, x)

\* deque(maxlen=_MAX_HISTORY_LENGTH).append(x)
DequeAppend(d, x) ==
    IF Len(d) >= MAX_HISTORY_LENGTH THEN Tail(d) \o <<x>> ELSE Append(d, x)

\* _USER_MEMORY[user_id]: the defaultdict creates an empty deque for a
\* missing key
MemoryGetItem(mem, u) ==
    IF u \in DOMAIN mem THEN mem ELSE [v \in DOMAIN mem \cup {u} |->
                                         IF v = u THEN <<>> ELSE mem[v]]

\* one deque shared by all users: the message lands in every buffer
add_user_message_shared(mem, u, m) ==
    LET created == MemoryGetItem(mem, u)
    IN  [v \in DOMAIN created |-> DequeAppend(created[v], m)]

\* add_user_message(user_id, message): the value of _USER_MEMORY afterwards
add_user_message(mem, u, m) ==
    LET created == MemoryGetItem(mem, u)
    IN  [created EXCEPT ![u] = DequeAppend(created[u], m)]

\* the history rendered newest first
build_baseline_context_newest_first(mem, u) ==
    LET history == IF u \in DOMAIN mem THEN mem[u] ELSE <<>>
        n == Len(history)
    IN  IF history = <<>> THEN ""
        ELSE JoinNL(<<"Previous conversation:">>
                    \o [i \in 1..n |-> "- " \o history[n + 1 - i]])

\* build_baseline_context(user_id): the string returned
build_baseline_context(mem, u) ==
    LET history == IF u \in DOMAIN mem THEN mem[u] ELSE <<>>   \* .get()
    IN  IF history = <<>> THEN ""
        ELSE JoinNL(<<"Previous conversation:">>
                    \o [i \in 1..Len(history) |-> "- " \o history[i]])

\* ------------------------------------------------------------------------
\* graph/retriever.py: merging the two channels
\* ------------------------------------------------------------------------
\* key = (item["type"], item["timestamp"])
RowKey(item) == <<item.type, item.timestamp>>

RECURSIVE MergeLoop(_, _, _)
\* the loop of _merge_contexts over the rows still to visit
MergeLoop(items, seen, merged) ==
    IF items = <<>> THEN merged
    ELSE LET item == Head(items)
             key == RowKey(item)
         IN  IF key \notin seen
             THEN MergeLoop(Tail(items), seen \cup {key}, Append(merged, item))
             ELSE MergeLoop(Tail(items), seen, merged)

\* the topic channel visited before the entity channel
merge_contexts_topics_first(entity_ctx, topic_ctx) ==
    [past_events  |-> MergeLoop(topic_ctx \o entity_ctx, {}, <<>>),
     entity_count |-> Len(entity_ctx),
     topic_count  |-> Len(topic_ctx)]

\* the counts taken from the rows that survive the merge
merge_contexts_surviving_counts(entity_ctx, topic_ctx) ==
    LET merged == MergeLoop(entity_ctx \o topic_ctx, {}, <<>>)
    IN  [past_events  |-> merged,
         entity_count |-> Cardinality({i \in 1..Len(merged) :
                                          "entity" \in DOMAIN merged[i]}),
         topic_count  |-> Cardinality({i \in 1..Len(merged) :
                                          "topic" \in DOMAIN merged[i]})]

\* _merge_contexts(entity_ctx, topic_ctx)
merge_contexts(entity_ctx, topic_ctx) ==
    [past_events  |-> MergeLoop(entity_ctx \o topic_ctx, {}, <<>>),
     entity_count |-> Len(entity_ctx),
     topic_count  |-> Len(topic_ctx)]

\* ------------------------------------------------------------------------
\* The graph store (Neo4j) as the queries of retriever.py read it: nodes
\* with the store's internal ids, relationships as records.  The store is
\* an external database that outlives the process, so a run starts from
\* any of the graphs below.
\* ------------------------------------------------------------------------
EmptyGraph ==
    [users |-> {}, events |-> {}, entities |-> {}, topics |-> {}, edges |-> {}]

Edge(n, a, rel, b) == [n |-> n, src |-> a, rel |-> rel, dst |-> b]

\* two users; u1's event 3 has an entity and a topic, u1's event 4 mentions
\* two entities, u2's event 5 shares type, timestamp and entity with event 4
SmallGraph ==
    [users    |-> {[id |-> 1, uid |-> "u1"], [id |-> 2, uid |-> "u2"]},
     events   |-> {[id |-> 3, type |-> "USER_QUERY", timestamp |-> 1],
                   [id |-> 4, type |-> "USER_QUERY", timestamp |-> 2],
                   [id |-> 5, type |-> "USER_QUERY", timestamp |-> 2]},
     entities |-> {[id |-> 6, name |-> "Neo4j"], [id |-> 7, name |-> "Graph RAG"]},
     topics   |-> {[id |-> 8, name |-> "RAG"]},
     edges    |-> {Edge(1, 1, "ASKED_ABOUT", 3), Edge(2, 1, "ASKED_ABOUT", 4),
                   Edge(3, 2, "ASKED_ABOUT", 5),
                   Edge(4, 3, "MENTIONS", 6), Edge(5, 3, "ASKED_ABOUT", 8),
                   Edge(6, 4, "MENTIONS", 6), Edge(7, 4, "MENTIONS", 7),
                   Edge(8, 5, "MENTIONS", 6)}]

\* u1 owns five events that together mention entities six times
LargeGraph ==
    [users    |-> {[id |-> 1, uid |-> "u1"]},
     events   |-> {[id |-> 10 + t, type |-> "USER_QUERY", timestamp |-> t] :
                      t \in 1..5},
     entities |-> {[id |-> 6, name |-> "Neo4j"], [id |-> 7, name |-> "Graph RAG"]},
     topics   |-> {[id |-> 8, name |-> "RAG"]},
     edges    |-> {Edge(t, 1, "ASKED_ABOUT", 10 + t) : t \in 1..5}
                  \cup {Edge(10 + t, 10 + t, "MENTIONS", 6) : t \in 1..5}
                  \cup {Edge(20, 11, "MENTIONS", 7),
                        Edge(21, 15, "ASKED_ABOUT", 8)}]

StoreContents == {EmptyGraph, SmallGraph, LargeGraph}

\* ------------------------------------------------------------------------
\* graph/retriever.py: the two channels
\* ------------------------------------------------------------------------
Min(a, b) == IF a <= b THEN a ELSE b

\* the pattern without the user: the events of every user match
MatchesAnyUser(g, user_id, rel, targets, names) ==
    {m \in [e : g.events, x : targets, r1 : g.edges, r2 : g.edges] :
        /\ \E u \in g.users : m.r1.src = u.id
        /\ m.r1.rel = "ASKED_ABOUT" /\ m.r1.dst = m.e.id
        /\ m.r2.src = m.e.id /\ m.r2.rel = rel /\ m.r2.dst = m.x.id
        /\ m.x.name \in names}

\* MATCH (u:User {id: $user_id})-[:ASKED_ABOUT]->(e:Event)-[:rel]->(x)
\* WHERE x.name IN $names, x ranging over targets: one match per path
Matches(g, user_id, rel, targets, names) ==
    {m \in [e : g.events, x : targets, r1 : g.edges, r2 : g.edges] :
        /\ \E u \in g.users : u.uid = user_id /\ m.r1.src = u.id
        /\ m.r1.rel = "ASKED_ABOUT" /\ m.r1.dst = m.e.id
        /\ m.r2.src = m.e.id /\ m.r2.rel = rel /\ m.r2.dst = m.x.id
        /\ m.x.name \in names}

RECURSIVE OrderedDesc(_)
\* ORDER BY e.timestamp DESC: every order of the matches that is
\* descending in the timestamp (the store orders ties as it likes)
OrderedDesc(M) ==
    IF M = {} THEN {<<>>}
    ELSE LET top == {m \in M : \A o \in M : m.e.timestamp >= o.e.timestamp}
         IN  UNION {{<<m>> \o rest : rest \in OrderedDesc(M \ {m})} : m \in top}

\* the query without its LIMIT
LimitIgnored(rows, limit) == rows

\* LIMIT $limit
Limit(rows, limit) == SubSeq(rows, 1, Min(Len(rows), limit))

\* RETURN e.type AS type, e.timestamp AS timestamp, en.name AS entity
EntityRecord(m) ==
    [type |-> m.e.type, timestamp |-> m.e.timestamp, entity |-> m.x.name]

\* RETURN e.type AS type, e.timestamp AS timestamp, t.name AS topic
TopicRecord(m) ==
    [type |-> m.e.type, timestamp |-> m.e.timestamp, topic |-> m.x.name]

\* _retrieve_by_entities: the row lists the query can return
retrieve_by_entities(g, user_id, entities, max_events) ==
    IF entities = {} THEN {<<>>}
    ELSE {Limit([i \in 1..Len(ms) |-> EntityRecord(ms[i])], max_events) :
            ms \in OrderedDesc(Matches(g, user_id, "MENTIONS",
                                       g.entities, entities))}

\* _retrieve_by_topics: the row lists the query can return
retrieve_by_topics(g, user_id, topics, max_events) ==
    IF topics = {} THEN {<<>>}
    ELSE {Limit([i \in 1..Len(ms) |-> TopicRecord(ms[i])], max_events) :
            ms \in OrderedDesc(Matches(g, user_id, "ASKED_ABOUT",
                                       g.topics, topics))}

\* max_events=5, the default retrieve_context is called with
MAX_EVENTS == 5

\* ------------------------------------------------------------------------
\* rag/extractor.py.  The topics follow the keyword rules; the entities are
\* what the spaCy model is taken to recognise in each text.
\* ------------------------------------------------------------------------
NoExtraction == [entities |-> {}, topics |-> {}]

extract_entities(text) ==
    CASE text = "Explain Neo4j" ->
            [entities |-> {"Neo4j"}, topics |-> {}]
      [] text = "How does Neo4j support Graph RAG?" ->
            [entities |-> {"Neo4j", "Graph RAG"},
             topics |-> {"RAG", "Knowledge Graphs"}]
      [] text = "Neo4j is a graph database." ->
            [entities |-> {"Neo4j"}, topics |-> {"Knowledge Graphs"}]
      [] text = "Neo4j" ->
            [entities |-> {"Neo4j"}, topics |-> {}]
      [] text = "Graph RAG" ->
            [entities |-> {"Graph RAG"},
             topics |-> {"RAG", "Knowledge Graphs"}]
      [] OTHER -> NoExtraction

\* ------------------------------------------------------------------------
\* main.py _format_graph_context and rag/prompt_builder.py build_prompt
\* ------------------------------------------------------------------------
\* dict.get(key, default)
Get(d, key, default) == IF key \in DOMAIN d THEN d[key] ELSE default

\* event.get("entity") is set and not empty
HasEntity(event) == "entity" \in DOMAIN event /\ event.entity # ""

EntityLine(event) ==
    "- Previously, the user mentioned the entity \"" \o event.entity
        \o "\" in a query."

\* the loop over past_events: one line per event that has an entity
EntityLines(past_events) ==
    LET F[i \in 0..Len(past_events)] ==
            IF i = 0 THEN <<>>
            ELSE IF HasEntity(past_events[i])
                 THEN Append(F[i - 1], EntityLine(past_events[i]))
                 ELSE F[i - 1]
    IN  F[Len(past_events)]

\* " and ".join(parts)
JoinAnd(parts) ==
    IF Len(parts) = 2 THEN parts[1] \o " and " \o parts[2] ELSE parts[1]

\* the summary naming both counts whatever their values
CountSummaryBothClauses(entity_count, topic_count) ==
    "- The conversation includes" \o " "
        \o ToString(entity_count) \o " distinct entities and "
        \o ToString(topic_count) \o " topics."

CountSummary(entity_count, topic_count) ==
    LET parts == (IF entity_count > 0
                  THEN <<ToString(entity_count) \o " distinct entities">>
                  ELSE <<>>)
                 \o (IF topic_count > 0
                     THEN <<ToString(topic_count) \o " topics">> ELSE <<>>)
    IN  "- The conversation includes" \o " " \o JoinAnd(parts) \o "."

\* main.py _format_graph_context(context)
format_graph_context(context) ==
    LET past_events == Get(context, "past_events", <<>>)
        entity_count == Get(context, "entity_count", 0)
        topic_count == Get(context, "topic_count", 0)
        memory_lines ==
            EntityLines(past_events)
            \o (IF entity_count > 0 \/ topic_count > 0
                THEN <<CountSummary(entity_count, topic_count)>> ELSE <<>>)
    IN  JoinNL(memory_lines)

\* build_prompt leaving the count summary out of the memory lines
build_prompt_without_summary(context, query) ==
    LET memory_lines == EntityLines(Get(context, "past_events", <<>>))
        sections ==
            (IF memory_lines # <<>>
             THEN <<"Memory Context:">> \o memory_lines \o <<"">> ELSE <<>>)
            \o <<"User Query:", query>>
    IN  JoinNL(sections)

\* prompt_builder.py build_prompt(context, query)
build_prompt(context, query) ==
    LET past_events == Get(context, "past_events", <<>>)
        entity_count == Get(context, "entity_count", 0)
        topic_count == Get(context, "topic_count", 0)
        memory_lines ==
            EntityLines(past_events)
            \o (IF entity_count > 0 \/ topic_count > 0
                THEN <<CountSummary(entity_count, topic_count)>> ELSE <<>>)
        sections ==
            (IF memory_lines # <<>>
             THEN <<"Memory Context:">> \o memory_lines \o <<"">> ELSE <<>>)
            \o <<"User Query:", query>>
    IN  JoinNL(sections)

\* ------------------------------------------------------------------------
\* evaluation/crs_evaluator.py.  A metric is the exact ratio the code
\* computes; the returned value round(x, 3) is kept in thousandths.
\* ------------------------------------------------------------------------
DefaultWeights ==
    [context_recall |-> 300, context_precision |-> 200,
     temporal_stability |-> 200, dependency_resolution |-> 200,
     context_decay_resistance |-> 100]

RECURSIVE GCD(_, _)
GCD(a, b) == IF b = 0 THEN a ELSE GCD(b, a % b)

\* the fraction n / d in lowest terms
Ratio(n, d) == [num |-> n \div GCD(n, d), den |-> d \div GCD(n, d)]
One == Ratio(1, 1)
Zero == Ratio(0, 1)

\* round(num / den, 3) in thousandths, ties to the even neighbour
Round3(x) ==
    LET n == 1000 * x.num
        q == n \div x.den
        r == n % x.den
    IN  IF 2 * r < x.den THEN q
        ELSE IF 2 * r > x.den THEN q + 1
        ELSE IF q % 2 = 0 THEN q ELSE q + 1

\* a * w, w a weight in thousandths
Scale(a, w) == Ratio(a.num * w, a.den * 1000)
Plus(a, b) == Ratio(a.num * b.den + b.num * a.den, a.den * b.den)

\* evaluate with one step altered: "recall" gives a recall of 0 to a
\* response with entities when the context has none, "stability" divides
\* the topic overlap by the response topics alone, "composite" divides the
\* weighted sum by the sum of the weights, "dep_res" counts every response
\* entity as resolving the query
EvaluateAltered(weights, q_ext, r_ext, c_ext, step) ==
    LET q_ents == q_ext.entities
        r_ents == r_ext.entities
        c_ents == c_ext.entities
        q_topics == q_ext.topics
        r_topics == r_ext.topics
        c_topics == c_ext.topics
        recall == IF c_ents = {}
                  THEN (IF step = "recall" /\ r_ents # {} THEN Zero ELSE One)
                  ELSE Ratio(Cardinality(r_ents \cap c_ents), Cardinality(c_ents))
        precision == IF r_ents = {} THEN One
                     ELSE Ratio(Cardinality(r_ents \cap c_ents), Cardinality(r_ents))
        dep_res == IF q_ents = {} THEN One
                   ELSE Ratio(IF step = "dep_res" THEN Cardinality(r_ents)
                              ELSE Cardinality(r_ents \cap q_ents),
                              Cardinality(q_ents))
        target_topics == q_topics \cup c_topics
        stability ==
            IF target_topics = {} /\ r_topics = {} THEN One
            ELSE IF target_topics = {} \/ r_topics = {} THEN Zero
            ELSE Ratio(Cardinality(r_topics \cap target_topics),
                       IF step = "stability" THEN Cardinality(r_topics)
                       ELSE Cardinality(r_topics \cup target_topics))
        decay == One
        weighted ==
            Plus(Plus(Plus(Plus(Scale(recall, weights.context_recall),
                                Scale(precision, weights.context_precision)),
                           Scale(stability, weights.temporal_stability)),
                      Scale(dep_res, weights.dependency_resolution)),
                 Scale(decay, weights.context_decay_resistance))
        total == weights.context_recall + weights.context_precision
                 + weights.temporal_stability + weights.dependency_resolution
                 + weights.context_decay_resistance
        composite == IF step = "composite"
                     THEN Ratio(weighted.num * 1000, weighted.den * total)
                     ELSE weighted
    IN  [context_recall |-> Round3(recall),
         context_precision |-> Round3(precision),
         temporal_stability |-> Round3(stability),
         dependency_resolution |-> Round3(dep_res),
         context_decay_resistance |-> Round3(decay),
         composite_score |-> Round3(composite),
         query_entities |-> q_ents, response_entities |-> r_ents,
         context_entities |-> c_ents, query_topics |-> q_topics,
         response_topics |-> r_topics, context_topics |-> c_topics]

evaluate_recall_zero_without_context(weights, q_ext, r_ext, c_ext) ==
    EvaluateAltered(weights, q_ext, r_ext, c_ext, "recall")

evaluate_stability_over_response(weights, q_ext, r_ext, c_ext) ==
    EvaluateAltered(weights, q_ext, r_ext, c_ext, "stability")

evaluate_renormalized(weights, q_ext, r_ext, c_ext) ==
    EvaluateAltered(weights, q_ext, r_ext, c_ext, "composite")

evaluate_counts_all_response_entities(weights, q_ext, r_ext, c_ext) ==
    EvaluateAltered(weights, q_ext, r_ext, c_ext, "dep_res")

\* CRSEvaluator.evaluate, given the three extraction results
evaluate(weights, q_ext, r_ext, c_ext) ==
    LET q_ents == q_ext.entities
        r_ents == r_ext.entities
        c_ents == c_ext.entities
        q_topics == q_ext.topics
        r_topics == r_ext.topics
        c_topics == c_ext.topics
        recall == IF c_ents = {} THEN One
                  ELSE Ratio(Cardinality(r_ents \cap c_ents), Cardinality(c_ents))
        precision == IF r_ents = {} THEN One
                     ELSE Ratio(Cardinality(r_ents \cap c_ents), Cardinality(r_ents))
        dep_res == IF q_ents = {} THEN One
                   ELSE Ratio(Cardinality(r_ents \cap q_ents), Cardinality(q_ents))
        target_topics == q_topics \cup c_topics
        stability ==
            IF target_topics = {} /\ r_topics = {} THEN One
            ELSE IF target_topics = {} \/ r_topics = {} THEN Zero
            ELSE Ratio(Cardinality(r_topics \cap target_topics),
                       Cardinality(r_topics \cup target_topics))
        decay == One
        composite ==
            Plus(Plus(Plus(Plus(Scale(recall, weights.context_recall),
                                Scale(precision, weights.context_precision)),
                           Scale(stability, weights.temporal_stability)),
                      Scale(dep_res, weights.dependency_resolution)),
                 Scale(decay, weights.context_decay_resistance))
    IN  [context_recall |-> Round3(recall),
         context_precision |-> Round3(precision),
         temporal_stability |-> Round3(stability),
         dependency_resolution |-> Round3(dep_res),
         context_decay_resistance |-> Round3(decay),
         composite_score |-> Round3(composite),
         query_entities |-> q_ents, response_entities |-> r_ents,
         context_entities |-> c_ents, query_topics |-> q_topics,
         response_topics |-> r_topics, context_topics |-> c_topics]

\* ------------------------------------------------------------------------
\* State shared by the specifications
\* ------------------------------------------------------------------------
NoCall == [op |-> "none"]

NoValue == [op |-> "none"]

\* a handler slot with no request in it
Idle ==
    [pc |-> "idle", user |-> "", message |-> "", mode |-> "",
     entity_ctx |-> <<>>, locals |-> << >>, prompt |-> "", parts |-> {},
     retriever |-> "none", memory |-> "none", retrieval |-> "none",
     write |-> "none", logged |-> {}]

NoResponse == [status |-> "none"]

chatVars == <<graph, req, returned, turns>>

vars == <<USER_MEMORY, appended, lastCall, input, output,
          graph, req, returned, turns>>

InitChatIdle ==
    /\ graph = EmptyGraph
    /\ req = [s \in Slots |-> Idle]
    /\ returned = NoResponse
    /\ turns = 0

\* ------------------------------------------------------------------------
\* Specification of the buffer alone
\* ------------------------------------------------------------------------

InitBuffer ==
    /\ USER_MEMORY = << >>
    /\ appended = [u \in Users |-> <<>>]
    /\ lastCall = NoCall
    /\ input = NoValue
    /\ output = NoValue
    /\ InitChatIdle

AddUserMessage(u, m) ==
    /\ Len(appended[u]) < MaxAppends
    /\ USER_MEMORY' = add_user_message(USER_MEMORY, u, m)
    /\ appended' = [appended EXCEPT ![u] = Append(@, m)]
    /\ lastCall' = [op |-> "add_user_message", user |-> u, message |-> m]
    /\ UNCHANGED <<input, output, chatVars>>

BuildBaselineContext(u) ==
    /\ lastCall' = [op |-> "build_baseline_context", user |-> u,
                    result |-> build_baseline_context(USER_MEMORY, u)]
    /\ UNCHANGED <<USER_MEMORY, appended, input, output, chatVars>>

NextBuffer ==
    \/ \E u \in Users, m \in BufferMessages : AddUserMessage(u, m)
    \/ \E u \in Users : BuildBaselineContext(u)

SpecBuffer == InitBuffer /\ [][NextBuffer]_vars

\* ------------------------------------------------------------------------
\* Specification of _merge_contexts alone: the two channel results are any
\* row lists of the shape the two queries return; the merged context is
\* then formatted
\* ------------------------------------------------------------------------
EventTypes == {"USER_QUERY", "SYSTEM_REPLY"}
Timestamps == {1, 2}
EntityNames == {"Neo4j", "Graph RAG"}
TopicNames == {"RAG", "Knowledge Graphs"}

EntityRows == [type : EventTypes, timestamp : Timestamps, entity : EntityNames]
TopicRows == [type : EventTypes, timestamp : Timestamps, topic : TopicNames]

SeqsUpTo(S, n) == UNION {[1..k -> S] : k \in 0..n}

InitMerge ==
    /\ USER_MEMORY = << >>
    /\ appended = [u \in Users |-> <<>>]
    /\ lastCall = NoCall
    /\ input \in [entity_ctx : SeqsUpTo(EntityRows, MaxRows),
                   topic_ctx : SeqsUpTo(TopicRows, MaxRows)]
    /\ output = NoValue
    /\ InitChatIdle

MergeContexts ==
    /\ output = NoValue
    /\ output' = merge_contexts(input.entity_ctx, input.topic_ctx)
    /\ UNCHANGED <<USER_MEMORY, appended, lastCall, input, chatVars>>

\* _format_graph_context applied to the merged context
FormatGraphContext ==
    /\ output # NoValue
    /\ lastCall = NoCall
    /\ lastCall' = [op |-> "_format_graph_context", context |-> output,
                    text |-> format_graph_context(output)]
    /\ UNCHANGED <<USER_MEMORY, appended, input, output, chatVars>>

NextMerge ==
    \/ MergeContexts
    \/ FormatGraphContext

SpecMerge == InitMerge /\ [][NextMerge]_vars

\* ------------------------------------------------------------------------
\* main.py chat: one request per handler slot, one step per round trip to
\* the store or to the generation service
\* ------------------------------------------------------------------------
\* the write placed before the retrieval
GraphOrderWriteFirst ==
    <<"write", "connect", "retrieve_entities", "retrieve_topics", "generate">>

\* the order of the graph-mode steps of chat
GraphOrder ==
    <<"connect", "retrieve_entities", "retrieve_topics", "write", "generate">>

\* the step that follows pc in a graph-mode turn
StepAfter(pc) ==
    GraphOrder[1 + CHOOSE i \in 1..Len(GraphOrder) : GraphOrder[i] = pc]

GraphErrorResponse ==
    "The system is temporarily unavailable due to a graph error."

\* llm/gemini_client.py generate_response: some text for any prompt
Responses == {"Neo4j is a graph database.", "I cannot help with that."}

NoScores == [none |-> TRUE]

\* what the handler hands back for the request in record r
ChatResponse(r, response, context_used, crs_scores, generated, context_text) ==
    [status |-> "200",
     body |-> [response |-> response, context_used |-> context_used,
               crs_scores |-> crs_scores],
     turn |-> [user |-> r.user, message |-> r.message, mode |-> r.mode,
               prompt |-> r.prompt, generated |-> generated,
               context_text |-> context_text, logged |-> r.logged,
               retriever |-> r.retriever, memory |-> r.memory,
               retrieval |-> r.retrieval, write |-> r.write,
               locals |-> r.locals]]

\* the outer except of the graph branch: log, return the fixed response
GraphErrorReturn(r) ==
    ChatResponse([r EXCEPT !.logged = @ \cup {"error: Graph retrieval failed"},
                           !.retrieval = "failed"],
                 GraphErrorResponse, <<{}, {}>>, NoScores, FALSE, "")

InitChat ==
    /\ USER_MEMORY = << >>
    /\ appended = [u \in Users |-> <<>>]
    /\ lastCall = NoCall
    /\ input = NoValue
    /\ output = NoValue
    /\ graph \in StoreContents
    /\ req = [s \in Slots |-> Idle]
    /\ returned = NoResponse
    /\ turns = 0

bufferVars == <<USER_MEMORY, appended>>
pureVars == <<lastCall, input, output>>

\* a request arrives
ReceiveChat(s, u, m, mode) ==
    /\ req[s].pc = "idle"
    /\ turns < MaxTurns
    /\ turns' = turns + 1
    /\ req' = [req EXCEPT ![s] =
                 [Idle EXCEPT !.pc = IF mode = "graph" THEN GraphOrder[1]
                                     ELSE "baseline",
                              !.user = u, !.message = m, !.mode = mode]]
    /\ UNCHANGED <<bufferVars, pureVars, graph, returned>>

\* retriever = GraphRetriever(uri, username, password)
Connect(s) ==
    /\ req[s].pc = "connect"
    /\ req' = [req EXCEPT ![s].retriever = "open",
                          ![s].pc = StepAfter("connect")]
    /\ UNCHANGED <<bufferVars, pureVars, graph, returned, turns>>

\* the driver cannot be created: the outer except returns
ConnectFails(s) ==
    /\ req[s].pc = "connect"
    /\ returned' = GraphErrorReturn(req[s])
    /\ req' = [req EXCEPT ![s] = Idle]
    /\ UNCHANGED <<bufferVars, pureVars, graph, turns>>

\* retrieve_context, first channel
RetrieveEntities(s) ==
    /\ req[s].pc = "retrieve_entities"
    /\ \E rows \in retrieve_by_entities(graph, req[s].user,
                       extract_entities(req[s].message).entities, MAX_EVENTS) :
          req' = [req EXCEPT ![s].entity_ctx = rows,
                             ![s].pc = StepAfter("retrieve_entities")]
    /\ UNCHANGED <<bufferVars, pureVars, graph, returned, turns>>

\* the graph branch also appending the message to the baseline buffer
RetrieveTopicsAppendsToBuffer(s) ==
    /\ req[s].pc = "retrieve_topics"
    /\ \E rows \in retrieve_by_topics(graph, req[s].user,
                       extract_entities(req[s].message).topics, MAX_EVENTS) :
          LET graph_context == merge_contexts(req[s].entity_ctx, rows)
          IN  req' = [req EXCEPT
                        ![s].locals = ("graph_context" :> graph_context) @@ @,
                        ![s].prompt = build_prompt(graph_context, req[s].message),
                        ![s].retriever = "closed",
                        ![s].retrieval = "ok",
                        ![s].pc = StepAfter("retrieve_topics")]
    /\ USER_MEMORY' = add_user_message(USER_MEMORY, req[s].user, req[s].message)
    /\ UNCHANGED <<appended, pureVars, graph, returned, turns>>

\* retrieve_context, second channel and merge; build_prompt; the finally
\* closes the retriever
RetrieveTopics(s) ==
    /\ req[s].pc = "retrieve_topics"
    /\ \E rows \in retrieve_by_topics(graph, req[s].user,
                       extract_entities(req[s].message).topics, MAX_EVENTS) :
          LET graph_context == merge_contexts(req[s].entity_ctx, rows)
          IN  req' = [req EXCEPT
                        ![s].locals = ("graph_context" :> graph_context) @@ @,
                        ![s].prompt = build_prompt(graph_context, req[s].message),
                        ![s].retriever = "closed",
                        ![s].retrieval = "ok",
                        ![s].pc = StepAfter("retrieve_topics")]
    /\ UNCHANGED <<bufferVars, pureVars, graph, returned, turns>>

\* a query of retrieve_context raises and the turn goes on to the write
\* with an empty context
RetrievalFailsThenWrites(s) ==
    /\ \/ /\ req[s].pc = "retrieve_entities"
          /\ extract_entities(req[s].message).entities # {}
       \/ /\ req[s].pc = "retrieve_topics"
          /\ extract_entities(req[s].message).topics # {}
    /\ req' = [req EXCEPT ![s].retriever = "closed",
                          ![s].retrieval = "failed",
                          ![s].pc = "write"]
    /\ UNCHANGED <<bufferVars, pureVars, graph, returned, turns>>

\* a query of retrieve_context raises: the finally closes the retriever,
\* the outer except returns
RetrievalFails(s) ==
    /\ \/ /\ req[s].pc = "retrieve_entities"
          /\ extract_entities(req[s].message).entities # {}
       \/ /\ req[s].pc = "retrieve_topics"
          /\ extract_entities(req[s].message).topics # {}
    /\ returned' = GraphErrorReturn([req[s] EXCEPT !.retriever = "closed"])
    /\ req' = [req EXCEPT ![s] = Idle]
    /\ UNCHANGED <<bufferVars, pureVars, graph, turns>>

\* memory = GraphMemory(...) raises: the inner except logs a warning
WriteConnectFails(s) ==
    /\ req[s].pc = "write"
    /\ req' = [req EXCEPT
                 ![s].write = "failed",
                 ![s].logged = @ \cup {"warning: Graph write failed"},
                 ![s].pc = StepAfter("write")]
    /\ UNCHANGED <<bufferVars, pureVars, graph, returned, turns>>

\* the exception of the write leaves the handler through the outer except
WriteInteractionPropagates(s) ==
    /\ req[s].pc = "write"
    /\ returned' = GraphErrorReturn([req[s] EXCEPT !.memory = "open",
                                                   !.write = "failed"])
    /\ req' = [req EXCEPT ![s] = Idle]
    /\ UNCHANGED <<bufferVars, pureVars, graph, turns>>

\* memory.write_interaction(...): GraphMemory has no such method, the call
\* raises AttributeError before any query is sent; the inner except logs a
\* warning and memory.close() is skipped
WriteInteractionFails(s) ==
    /\ req[s].pc = "write"
    /\ req' = [req EXCEPT
                 ![s].memory = "open",
                 ![s].write = "failed",
                 ![s].logged = @ \cup {"warning: Graph write failed"},
                 ![s].pc = StepAfter("write")]
    /\ UNCHANGED <<bufferVars, pureVars, graph, returned, turns>>

\* the baseline branch rendering the buffer before the message is appended
BaselineRendersFirst(s) ==
    /\ req[s].pc = "baseline"
    /\ LET mem == add_user_message(USER_MEMORY, req[s].user, req[s].message)
           baseline_context == build_baseline_context(USER_MEMORY, req[s].user)
       IN  /\ USER_MEMORY' = mem
           /\ req' = [req EXCEPT
                        ![s].locals = ("baseline_context" :> baseline_context) @@ @,
                        ![s].prompt = baseline_context \o "\n\nUser Query:\n"
                                          \o req[s].message,
                        ![s].parts = {mem[req[s].user][i] :
                                         i \in 1..Len(mem[req[s].user])},
                        ![s].pc = "generate"]
    /\ appended' = [appended EXCEPT ![req[s].user] = Append(@, req[s].message)]
    /\ UNCHANGED <<pureVars, graph, returned, turns>>

\* the baseline branch: add_user_message, build_baseline_context, prompt
Baseline(s) ==
    /\ req[s].pc = "baseline"
    /\ LET mem == add_user_message(USER_MEMORY, req[s].user, req[s].message)
           baseline_context == build_baseline_context(mem, req[s].user)
       IN  /\ USER_MEMORY' = mem
           /\ req' = [req EXCEPT
                        ![s].locals = ("baseline_context" :> baseline_context) @@ @,
                        ![s].prompt = baseline_context \o "\n\nUser Query:\n"
                                          \o req[s].message,
                        ![s].parts = {mem[req[s].user][i] :
                                         i \in 1..Len(mem[req[s].user])},
                        ![s].pc = "generate"]
    /\ appended' = [appended EXCEPT ![req[s].user] = Append(@, req[s].message)]
    /\ UNCHANGED <<pureVars, graph, returned, turns>>

\* the entity names a formatted graph context quotes
EntityParts(context) ==
    LET past_events == Get(context, "past_events", <<>>)
    IN  {past_events[i].entity :
            i \in {j \in 1..Len(past_events) : HasEntity(past_events[j])}}

\* extract_entities on a context text: what the extractor finds in the
\* texts embedded in it (the fixed wording holds no keyword)
extract_context(context_text, parts) ==
    IF context_text = "" THEN NoExtraction
    ELSE [entities |-> UNION {extract_entities(p).entities : p \in parts},
          topics |-> UNION {extract_entities(p).topics : p \in parts}]

\* generate_response(prompt), the CRS evaluation and the return
Generate(s, llm_response) ==
    /\ req[s].pc = "generate"
    /\ LET r == req[s]
           extraction == extract_entities(r.message)
           context_text ==
               IF r.mode = "baseline"
               THEN Get(r.locals, "baseline_context", "")
               ELSE format_graph_context(Get(r.locals, "graph_context", << >>))
           parts == IF r.mode = "baseline" THEN r.parts
                    ELSE EntityParts(Get(r.locals, "graph_context", << >>))
           crs == evaluate(DefaultWeights, extraction,
                           extract_entities(llm_response),
                           extract_context(context_text, parts))
       IN  returned' = ChatResponse(r, llm_response,
                                    <<extraction.entities, extraction.topics>>,
                                    crs, TRUE, context_text)
    /\ req' = [req EXCEPT ![s] = Idle]
    /\ UNCHANGED <<bufferVars, pureVars, graph, turns>>

Next ==
    \E s \in Slots :
        \/ \E u \in Users, m \in Messages, mode \in Modes : ReceiveChat(s, u, m, mode)
        \/ Connect(s)
        \/ ConnectFails(s)
        \/ RetrieveEntities(s)
        \/ RetrieveTopics(s)
        \/ RetrievalFails(s)
        \/ WriteConnectFails(s)
        \/ WriteInteractionFails(s)
        \/ Baseline(s)
        \/ \E llm_response \in Responses : Generate(s, llm_response)

Spec == InitChat /\ [][Next]_vars

\* ------------------------------------------------------------------------
\* graph/graph.py GraphMemory: each method is one query (one session.run)
\* on the store.  A relationship record's n tells parallel relationships
\* between the same two nodes apart.
\* ------------------------------------------------------------------------
MaxCalls == 3

SetMax(S) == IF S = {} THEN 0 ELSE CHOOSE m \in S : \A x \in S : x <= m

\* the internal id the store gives the next node
NextId(g) ==
    SetMax({x.id : x \in g.users} \cup {x.id : x \in g.events}
           \cup {x.id : x \in g.entities} \cup {x.id : x \in g.topics}) + 1

NextEdgeNo(g) == SetMax({r.n : r \in g.edges}) + 1

\* datetime.utcnow().isoformat(): not before the newest stored timestamp,
\* and two events can fall on the same clock reading
Now(g) ==
    LET newest == SetMax({e.timestamp : e \in g.events})
    IN  {IF newest = 0 THEN 1 ELSE newest, newest + 1}

\* previous_event_id=None
None == 0

\* an id no node of the store has
MissingId == 99

\* get_or_create_user: the query text opens with a stray double quote
\* (`""""`), an unterminated string literal in Cypher; session.run raises
\* and no User node is merged
get_or_create_user(g, user_id) == [graph |-> g, raised |-> TRUE]

\* CREATE (e:Event {type: $event_type, timestamp: $timestamp})
create_event(g, event_type, timestamp) ==
    [g EXCEPT !.events =
        @ \cup {[id |-> NextId(g), type |-> event_type,
                 timestamp |-> timestamp]}]

\* CREATE in the place of MERGE: a new Entity node on every call
get_or_create_entity_always_creates(g, entity_name) ==
    [g EXCEPT !.entities = @ \cup {[id |-> NextId(g), name |-> entity_name]}]

\* MERGE (e:Entity {name: $name})
get_or_create_entity(g, entity_name) ==
    IF \E en \in g.entities : en.name = entity_name THEN g
    ELSE [g EXCEPT !.entities =
            @ \cup {[id |-> NextId(g), name |-> entity_name]}]

\* MERGE (t:Topic {name: $name})
get_or_create_topic(g, topic_name) ==
    IF \E t \in g.topics : t.name = topic_name THEN g
    ELSE [g EXCEPT !.topics =
            @ \cup {[id |-> NextId(g), name |-> topic_name]}]

\* CREATE in the place of MERGE: a new relationship for every matched pair
MergeRelationshipAlwaysCreates(g, rel, pairs) ==
    [g EXCEPT !.edges =
        @ \cup {Edge(NextEdgeNo(g), p[1], rel, p[2]) : p \in pairs}]

\* MERGE (a)-[:rel]->(b) for every matched pair <<a, b>>: a relationship
\* is created only where none of that type joins the pair
MergeRelationship(g, rel, pairs) ==
    LET missing == {p \in pairs :
                       ~ \E r \in g.edges :
                            r.src = p[1] /\ r.rel = rel /\ r.dst = p[2]}
    IN  [g EXCEPT !.edges =
            @ \cup {Edge(NextEdgeNo(g), p[1], rel, p[2]) : p \in missing}]

\* MATCH (e:Event) WHERE id(e) = $event_id
EventsById(g, event_id) == {e \in g.events : e.id = event_id}

link_event_entity(g, event_id, entity_name) ==
    MergeRelationship(g, "MENTIONS",
        {<<e.id, en.id>> : e \in EventsById(g, event_id),
                           en \in {x \in g.entities : x.name = entity_name}})

link_event_topic(g, event_id, topic_name) ==
    MergeRelationship(g, "ASKED_ABOUT",
        {<<e.id, t.id>> : e \in EventsById(g, event_id),
                          t \in {x \in g.topics : x.name = topic_name}})

link_previous_event(g, current_event_id, previous_event_id) ==
    IF previous_event_id = None THEN g
    ELSE MergeRelationship(g, "PREVIOUS_CONTEXT",
            {<<curr.id, prev.id>> :
                curr \in EventsById(g, current_event_id),
                prev \in EventsById(g, previous_event_id)})

\* ------------------------------------------------------------------------
\* Specification of GraphMemory alone: any client calls its methods, in any
\* order, on a store that starts empty or seeded.  lastCall is the last
\* call made and lastCall.n its position in the run.
\* ------------------------------------------------------------------------
CallNo == Get(lastCall, "n", 0)

EventIds == {e.id : e \in graph.events} \cup {MissingId}

\* the entity and topic lists a client passes to store_interaction
EntityLists == {<<>>, <<"Neo4j", "Neo4j">>}
TopicLists == {<<>>, <<"RAG">>}

InitGraph ==
    /\ USER_MEMORY = << >>
    /\ appended = [u \in Users |-> <<>>]
    /\ lastCall = NoCall
    /\ input = NoValue
    /\ output = NoValue
    /\ graph \in {EmptyGraph, SmallGraph}
    /\ req = [s \in Slots |-> Idle]
    /\ returned = NoResponse
    /\ turns = 0

graphFrame == <<USER_MEMORY, appended, input, output, req, returned, turns>>

\* the call before this one was the same link call with the same arguments
SameLink(op, event_id, name) ==
    /\ lastCall.op = op
    /\ ~lastCall.raised
    /\ lastCall.event_id = event_id
    /\ lastCall.name = name

GetOrCreateUser(user_id) ==
    /\ CallNo < MaxCalls
    /\ graph' = get_or_create_user(graph, user_id).graph
    /\ lastCall' = [op |-> "get_or_create_user", n |-> CallNo + 1,
                    user_id |-> user_id,
                    raised |-> get_or_create_user(graph, user_id).raised]
    /\ UNCHANGED graphFrame

CreateEvent(event_type) ==
    /\ CallNo < MaxCalls
    /\ \E timestamp \in Now(graph) :
          graph' = create_event(graph, event_type, timestamp)
    /\ lastCall' = [op |-> "create_event", n |-> CallNo + 1,
                    event_id |-> NextId(graph), raised |-> FALSE]
    /\ UNCHANGED graphFrame

GetOrCreateEntity(entity_name) ==
    /\ CallNo < MaxCalls
    /\ graph' = get_or_create_entity(graph, entity_name)
    /\ lastCall' = [op |-> "get_or_create_entity", n |-> CallNo + 1,
                    name |-> entity_name, raised |-> FALSE]
    /\ UNCHANGED graphFrame

GetOrCreateTopic(topic_name) ==
    /\ CallNo < MaxCalls
    /\ graph' = get_or_create_topic(graph, topic_name)
    /\ lastCall' = [op |-> "get_or_create_topic", n |-> CallNo + 1,
                    name |-> topic_name, raised |-> FALSE]
    /\ UNCHANGED graphFrame

LinkEventEntity(event_id, entity_name) ==
    /\ CallNo < MaxCalls
    /\ graph' = link_event_entity(graph, event_id, entity_name)
    /\ lastCall' = [op |-> "link_event_entity", n |-> CallNo + 1,
                    event_id |-> event_id, name |-> entity_name,
                    repeated |-> SameLink("link_event_entity", event_id,
                                          entity_name),
                    raised |-> FALSE]
    /\ UNCHANGED graphFrame

LinkEventTopic(event_id, topic_name) ==
    /\ CallNo < MaxCalls
    /\ graph' = link_event_topic(graph, event_id, topic_name)
    /\ lastCall' = [op |-> "link_event_topic", n |-> CallNo + 1,
                    event_id |-> event_id, name |-> topic_name,
                    repeated |-> SameLink("link_event_topic", event_id,
                                          topic_name),
                    raised |-> FALSE]
    /\ UNCHANGED graphFrame

LinkPreviousEvent(current_event_id, previous_event_id) ==
    /\ CallNo < MaxCalls
    /\ graph' = link_previous_event(graph, current_event_id,
                                    previous_event_id)
    /\ lastCall' = [op |-> "link_previous_event", n |-> CallNo + 1,
                    event_id |-> current_event_id,
                    previous_event_id |-> previous_event_id,
                    raised |-> FALSE]
    /\ UNCHANGED graphFrame

\* store_interaction: the exception of get_or_create_user propagates
\* before any other step; were the user step to return, create_event would
\* run and the call to the undefined link_user_event would raise
\* AttributeError
StoreInteraction(user_id, event_type, entities, topics, previous_event_id) ==
    /\ CallNo < MaxCalls
    /\ LET user == get_or_create_user(graph, user_id)
       IN  IF user.raised
           THEN graph' = user.graph
           ELSE \E timestamp \in Now(user.graph) :
                   graph' = create_event(user.graph, event_type, timestamp)
    /\ lastCall' = [op |-> "store_interaction", n |-> CallNo + 1,
                    user_id |-> user_id, entities |-> entities,
                    topics |-> topics,
                    previous_event_id |-> previous_event_id,
                    raised |-> TRUE]
    /\ UNCHANGED graphFrame

\* the store is unreachable: session.run raises and the store is unchanged
SessionRunRaises(op) ==
    /\ CallNo < MaxCalls
    /\ lastCall' = [op |-> op, n |-> CallNo + 1, raised |-> TRUE]
    /\ UNCHANGED <<graph, graphFrame>>

NextGraph ==
    \/ \E user_id \in Users : GetOrCreateUser(user_id)
    \/ \E event_type \in EventTypes : CreateEvent(event_type)
    \/ \E name \in EntityNames : GetOrCreateEntity(name)
    \/ \E name \in TopicNames : GetOrCreateTopic(name)
    \/ \E id \in EventIds, name \in EntityNames : LinkEventEntity(id, name)
    \/ \E id \in EventIds, name \in TopicNames : LinkEventTopic(id, name)
    \/ \E id \in EventIds, prev \in EventIds \cup {None} :
          LinkPreviousEvent(id, prev)
    \/ \E user_id \in Users, event_type \in EventTypes,
          entities \in EntityLists, topics \in TopicLists,
          prev \in {None} \cup {e.id : e \in graph.events} :
          StoreInteraction(user_id, event_type, entities, topics, prev)
    \/ \E op \in {"create_event", "link_event_entity"} : SessionRunRaises(op)

SpecGraph == InitGraph /\ [][NextGraph]_vars

\* ------------------------------------------------------------------------
\* Specification of GraphRetriever.retrieve_context alone: one call on a
\* store of any seeded contents, one step per channel.  output.sessions is
\* the list of the sessions the call opened, one query in each.
\* ------------------------------------------------------------------------
LimitValues == {2, MAX_EVENTS}

\* the seeded graph after a client called create_event, get_or_create_entity
\* and link_event_entity: the new event mentions "Neo4j" and has no owner
WrittenGraph ==
    LET created == create_event(SmallGraph, "USER_QUERY", 3)
    IN  link_event_entity(get_or_create_entity(created, "Neo4j"),
                          NextId(SmallGraph), "Neo4j")

\* a channel opens a session even for an empty input
OpensSessionAlways(names) == TRUE

\* `if not entities: return []` / `if not topics: return []`, placed before
\* `with self.driver.session() as session`
OpensSession(names) == names # {}

RetrieveStart ==
    [pc |-> "entities", sessions |-> <<>>, entity_ctx |-> <<>>,
     topic_ctx |-> <<>>, result |-> NoValue]

InitRetrieve ==
    /\ USER_MEMORY = << >>
    /\ appended = [u \in Users |-> <<>>]
    /\ lastCall = NoCall
    /\ input \in [user_id : Users, entities : SUBSET EntityNames,
                   topics : SUBSET TopicNames, max_events : LimitValues]
    /\ output = RetrieveStart
    /\ graph \in StoreContents \cup {WrittenGraph}
    /\ req = [s \in Slots |-> Idle]
    /\ returned = NoResponse
    /\ turns = 0

retrieveFrame == <<USER_MEMORY, appended, lastCall, input, graph, req,
                   returned, turns>>

\* _retrieve_by_entities(user_id, entities, max_events)
RetrieveByEntities ==
    /\ output.pc = "entities"
    /\ \E rows \in retrieve_by_entities(graph, input.user_id, input.entities,
                                        input.max_events) :
          output' = [output EXCEPT
                        !.pc = "topics",
                        !.entity_ctx = rows,
                        !.sessions =
                            IF OpensSession(input.entities)
                            THEN Append(@, [channel |-> "entities",
                                            names |-> input.entities])
                            ELSE @]
    /\ UNCHANGED retrieveFrame

\* _retrieve_by_topics(user_id, topics, max_events)
RetrieveByTopics ==
    /\ output.pc = "topics"
    /\ \E rows \in retrieve_by_topics(graph, input.user_id, input.topics,
                                      input.max_events) :
          output' = [output EXCEPT
                        !.pc = "merge",
                        !.topic_ctx = rows,
                        !.sessions =
                            IF OpensSession(input.topics)
                            THEN Append(@, [channel |-> "topics",
                                            names |-> input.topics])
                            ELSE @]
    /\ UNCHANGED retrieveFrame

\* session.run raises (store unreachable): the call ends with the exception
QueryRaises ==
    /\ \/ output.pc = "entities" /\ OpensSession(input.entities)
       \/ output.pc = "topics" /\ OpensSession(input.topics)
    /\ output' = [output EXCEPT
                    !.pc = "raised",
                    !.sessions = Append(@, [channel |-> output.pc,
                                            names |-> input[output.pc]])]
    /\ UNCHANGED retrieveFrame

\* return self._merge_contexts(entity_context, topic_context)
RetrieveContextReturns ==
    /\ output.pc = "merge"
    /\ output' = [output EXCEPT
                    !.pc = "done",
                    !.result = merge_contexts(output.entity_ctx,
                                              output.topic_ctx)]
    /\ UNCHANGED retrieveFrame

NextRetrieve ==
    \/ RetrieveByEntities
    \/ RetrieveByTopics
    \/ QueryRaises
    \/ RetrieveContextReturns

SpecRetrieve == InitRetrieve /\ [][NextRetrieve]_vars

\* ------------------------------------------------------------------------
\* Specification of CRSEvaluator.evaluate alone: one evaluator with any of
\* the weight configurations, one call on any three extraction results
\* ------------------------------------------------------------------------
\* weights that sum to 1 and are not the defaults
SkewedWeights ==
    [context_recall |-> 400, context_precision |-> 100,
     temporal_stability |-> 200, dependency_resolution |-> 200,
     context_decay_resistance |-> 100]

\* weights that sum to 2
DoubleWeights ==
    [context_recall |-> 600, context_precision |-> 400,
     temporal_stability |-> 400, dependency_resolution |-> 400,
     context_decay_resistance |-> 200]

WeightConfigs == {DefaultWeights, SkewedWeights, DoubleWeights}

EvalEntities == {"Neo4j", "Graph RAG", "Gemini"}

\* what extract_func can return: a set of entities and a set of topics
Extractions ==
    [entities : SUBSET EvalEntities, topics : SUBSET TopicNames]

InitEval ==
    /\ USER_MEMORY = << >>
    /\ appended = [u \in Users |-> <<>>]
    /\ lastCall = NoCall
    /\ input \in [weights : WeightConfigs, q_ext : Extractions,
                   r_ext : Extractions, c_ext : Extractions]
    /\ output = NoValue
    /\ InitChatIdle

Evaluate ==
    /\ output = NoValue
    /\ output' = evaluate(input.weights, input.q_ext, input.r_ext, input.c_ext)
    /\ UNCHANGED <<USER_MEMORY, appended, lastCall, input, chatVars>>

NextEval == Evaluate

SpecEval == InitEval /\ [][NextEval]_vars

\* ------------------------------------------------------------------------
\* Specification of a CRSEvaluator object: constructed with any weights
\* argument, then evaluate called on the same three texts up to
\* MaxEvaluations times, one step per extract_func call.  output is the
\* evaluator and its running call.
\* ------------------------------------------------------------------------
MaxEvaluations == 2

\* a weights dictionary that omits four of the metric names
PartialWeights == [context_recall |-> 1000]

\* weights={}
EmptyWeights == [k \in {} |-> 0]

\* the weights argument of the constructor: left out (None) or a dictionary
WeightArgs ==
    {[given |-> FALSE, dict |-> EmptyWeights]}
    \cup {[given |-> TRUE, dict |-> d] :
             d \in {EmptyWeights, DefaultWeights, SkewedWeights,
                    PartialWeights}}

\* self.weights = weights or {...defaults...}: None and {} are both falsy
CRSEvaluatorInit(arg) ==
    IF ~arg.given \/ DOMAIN arg.dict = {} THEN DefaultWeights ELSE arg.dict

\* the texts evaluate is called with
EvalTexts ==
    {"", "Explain Neo4j", "How does Neo4j support Graph RAG?",
     "Neo4j is a graph database."}

\* the context text extracted before the response text
ExtractOrderContextFirst == <<"query_text", "context_text", "response_text">>

\* q_ext, r_ext, c_ext = extract_func(query_text), extract_func(
\* response_text), extract_func(context_text)
ExtractOrder == <<"query_text", "response_text", "context_text">>

\* the names self.weights is indexed with in the composite
WeightKeys ==
    {"context_recall", "context_precision", "temporal_stability",
     "dependency_resolution", "context_decay_resistance"}

NotConstructed ==
    [pc |-> "new", weights |-> NoValue, evaluations |-> 0, step |-> 0,
     calls |-> <<>>, extractions |-> <<>>, scores |-> NoValue,
     previous |-> NoValue, raised |-> "none"]

InitEvaluator ==
    /\ USER_MEMORY = << >>
    /\ appended = [u \in Users |-> <<>>]
    /\ lastCall = NoCall
    /\ input \in [arg : WeightArgs, query_text : EvalTexts,
                   response_text : EvalTexts, context_text : EvalTexts]
    /\ output = NotConstructed
    /\ InitChatIdle

evaluatorFrame == <<USER_MEMORY, appended, lastCall, input, chatVars>>

\* CRSEvaluator(weights)
Construct ==
    /\ output.pc = "new"
    /\ output' = [output EXCEPT !.pc = "idle",
                                !.weights = CRSEvaluatorInit(input.arg)]
    /\ UNCHANGED evaluatorFrame

\* evaluate(query_text, response_text, context_text, extract_func) called
CallEvaluate ==
    /\ output.pc \in {"idle", "done"}
    /\ output.evaluations < MaxEvaluations
    /\ output' = [output EXCEPT !.pc = "extract", !.step = 1,
                                !.evaluations = @ + 1,
                                !.calls = <<>>, !.extractions = <<>>,
                                !.scores = NoValue,
                                !.previous = output.scores]
    /\ UNCHANGED evaluatorFrame

\* the failure of an extract_func call swallowed: the evaluation goes on
\* with an empty extraction
ExtractRaisesSwallowed ==
    /\ output.pc = "extract"
    /\ output' = [output EXCEPT
                    !.calls = Append(@, input[ExtractOrder[output.step]]),
                    !.extractions = Append(@, NoExtraction),
                    !.raised = "extraction failure",
                    !.step = @ + 1,
                    !.pc = IF output.step = 3 THEN "score" ELSE "extract"]
    /\ UNCHANGED evaluatorFrame

\* an extract_func call raises: evaluate has no try, the call ends there
ExtractRaises ==
    /\ output.pc = "extract"
    /\ output' = [output EXCEPT
                    !.calls = Append(@, input[ExtractOrder[output.step]]),
                    !.raised = "extraction failure",
                    !.pc = "raised"]
    /\ UNCHANGED evaluatorFrame

\* one extract_func call returns
Extract ==
    /\ output.pc = "extract"
    /\ LET text == input[ExtractOrder[output.step]]
       IN  output' = [output EXCEPT
                        !.calls = Append(@, text),
                        !.extractions = Append(@, extract_entities(text)),
                        !.step = @ + 1,
                        !.pc = IF output.step = 3 THEN "score" ELSE "extract"]
    /\ UNCHANGED evaluatorFrame

\* the metrics, the composite (self.weights[name] raises KeyError for a
\* name the dictionary lacks) and the returned CRSScores
Score ==
    /\ output.pc = "score"
    /\ output' =
          IF WeightKeys \subseteq DOMAIN output.weights
          THEN [output EXCEPT
                  !.pc = "done",
                  !.scores = evaluate(output.weights, output.extractions[1],
                                      output.extractions[2],
                                      output.extractions[3])]
          ELSE [output EXCEPT !.pc = "raised", !.raised = "KeyError"]
    /\ UNCHANGED evaluatorFrame

NextEvaluator ==
    \/ Construct
    \/ CallEvaluate
    \/ Extract
    \/ ExtractRaises
    \/ Score

SpecEvaluator == InitEvaluator /\ [][NextEvaluator]_vars

\* ------------------------------------------------------------------------
\* Properties of the buffer
\* ------------------------------------------------------------------------
\* the last n elements of s
LastN(s, n) == SubSeq(s, Len(s) - n + 1, Len(s))

\* the messages stored for user u (none when u has no entry)
Stored(u) == IF u \in DOMAIN USER_MEMORY THEN USER_MEMORY[u] ELSE <<>>

\* C1: after any sequence of add_user_message calls the buffer of each user
\* holds exactly the last min(n, 5) messages appended for that user, in
\* append order (n = number of appends for that user); it never holds more
\* than 5, so what an overflowing append drops is the oldest entry.
C1_BufferIsLastK ==
    \A u \in Users :
        /\ Len(Stored(u)) <= 5
        /\ Stored(u) = LastN(appended[u], Min(Len(appended[u]), 5))
        /\ (u \in DOMAIN USER_MEMORY) <=> (appended[u] # <<>>)

C1_Witness ==
    \E u \in Users :
        /\ Len(appended[u]) = 6
        /\ appended[u][1] # appended[u][2]
        /\ appended[u][5] # appended[u][6]
        /\ Len(USER_MEMORY[u]) = 5

\* C2: add_user_message(u, m) changes only the buffer of user u: every other
\* user's stored sequence (and whether it has an entry at all) is the same
\* before and after the call, also when u's buffer overflows.
C2_AddFrame ==
    [][lastCall'.op = "add_user_message" =>
        \A v \in Users \ {lastCall'.user} :
            /\ (v \in DOMAIN USER_MEMORY') <=> (v \in DOMAIN USER_MEMORY)
            /\ v \in DOMAIN USER_MEMORY => USER_MEMORY'[v] = USER_MEMORY[v]]_vars

C2_Witness ==
    /\ lastCall.op = "add_user_message"
    /\ Len(appended[lastCall.user]) = 6
    /\ \E v \in Users \ {lastCall.user} :
          /\ Len(Stored(v)) >= 2
          /\ Stored(v)[Len(Stored(v))] # lastCall.message

RECURSIVE RenderedOldestFirst(_)
\* the header, then for each message from the oldest to the newest a line
\* break and the message's line
RenderedOldestFirst(h) ==
    IF h = <<>> THEN "Previous conversation:"
    ELSE RenderedOldestFirst(SubSeq(h, 1, Len(h) - 1))
             \o "\n" \o "- " \o h[Len(h)]

\* C3: build_baseline_context(u) returns the empty string when u has no
\* stored message, and otherwise the header line followed by one line per
\* stored message, oldest first, the last line being the newest message.
C3_RenderBaseline ==
    lastCall.op = "build_baseline_context" =>
        lastCall.result = IF Stored(lastCall.user) = <<>> THEN ""
                          ELSE RenderedOldestFirst(Stored(lastCall.user))

C3_Witness ==
    /\ lastCall.op = "build_baseline_context"
    /\ lastCall.result # ""
    /\ Len(Stored(lastCall.user)) = 5
    /\ Stored(lastCall.user)[1] # Stored(lastCall.user)[5]

\* ------------------------------------------------------------------------
\* Properties of _merge_contexts
\* ------------------------------------------------------------------------
\* position of the first row of rows that has key k
FirstIndex(rows, k) ==
    CHOOSE i \in 1..Len(rows) :
        /\ RowKey(rows[i]) = k
        /\ \A j \in 1..(i - 1) : RowKey(rows[j]) # k

KeysOf(rows) == {RowKey(rows[i]) : i \in 1..Len(rows)}

\* C9: past_events is the concatenation entity rows then topic rows with,
\* for each (type, timestamp) key, only the first row kept: keys pairwise
\* distinct, every key of either channel present, survivors in their
\* original relative order, and a key of both channels represented by its
\* entity-channel row.
C9_MergeFirstWins ==
    output # NoValue =>
        LET all == input.entity_ctx \o input.topic_ctx
            pe  == output.past_events
        IN  /\ \A i, j \in 1..Len(pe) : i # j => RowKey(pe[i]) # RowKey(pe[j])
            /\ KeysOf(pe) = KeysOf(all)
            /\ \A i \in 1..Len(pe) : pe[i] = all[FirstIndex(all, RowKey(pe[i]))]
            /\ \A i, j \in 1..Len(pe) :
                   i < j => FirstIndex(all, RowKey(pe[i]))
                                < FirstIndex(all, RowKey(pe[j]))
            /\ \A i \in 1..Len(pe) :
                   RowKey(pe[i]) \in KeysOf(input.entity_ctx)
                       => /\ "entity" \in DOMAIN pe[i]
                          /\ pe[i] = input.entity_ctx[
                                 FirstIndex(input.entity_ctx, RowKey(pe[i]))]

C9_Witness ==
    /\ output # NoValue
    /\ Len(output.past_events) = 2
    /\ Len(input.entity_ctx) = 2
    /\ Len(input.topic_ctx) = 2
    /\ KeysOf(input.entity_ctx) \cap KeysOf(input.topic_ctx) # {}
    /\ KeysOf(input.topic_ctx) \ KeysOf(input.entity_ctx) # {}

\* C10: entity_count is the number of rows the entity channel returned and
\* topic_count the number the topic channel returned, whatever survives the
\* deduplication.
C10_CountsAreChannelSizes ==
    output # NoValue =>
        /\ output.entity_count = Len(input.entity_ctx)
        /\ output.topic_count = Len(input.topic_ctx)

C10_Witness ==
    /\ output # NoValue
    /\ output.entity_count = 2
    /\ output.topic_count = 2
    /\ Len(output.past_events) = 1

\* ------------------------------------------------------------------------
\* Properties of the /chat handler
\* ------------------------------------------------------------------------
MetricFields ==
    {"context_recall", "context_precision", "temporal_stability",
     "dependency_resolution", "context_decay_resistance", "composite_score"}

\* event e of graph g is owned by user u and linked to the entities and
\* topics of extraction x
Persisted(g, e, u, x) ==
    /\ \E usr \in g.users, r \in g.edges :
          usr.uid = u /\ r.src = usr.id /\ r.rel = "ASKED_ABOUT" /\ r.dst = e.id
    /\ \A name \in x.entities : \E en \in g.entities, r \in g.edges :
          en.name = name /\ r.src = e.id /\ r.rel = "MENTIONS" /\ r.dst = en.id
    /\ \A name \in x.topics : \E t \in g.topics, r \in g.edges :
          t.name = name /\ r.src = e.id /\ r.rel = "ASKED_ABOUT" /\ r.dst = t.id

\* C4: a graph-mode turn whose write step runs with the store reachable
\* leaves a new Event in the graph, owned by the turn's user and linked to
\* the turn's entities and topics.
C4_TurnPersistsEvent ==
    [][\A s \in Slots :
          (req[s].pc = "write" /\ req'[s].pc # "write" /\ req'[s].memory = "open")
              => \E e \in graph'.events \ graph.events :
                    Persisted(graph', e, req[s].user,
                              extract_entities(req[s].message))]_vars

\* C5: a graph-mode turn whose retrieval failed goes on with an empty
\* merged context: the generation service is called with a prompt without
\* memory context and its response is returned.
C5_RetrievalFailureFallsBack ==
    (returned.status = "200" /\ returned.turn.retrieval = "failed") =>
        /\ returned.turn.generated
        /\ returned.body.response \in Responses
        /\ returned.turn.prompt =
               build_prompt(merge_contexts(<<>>, <<>>), returned.turn.message)

\* C6: every chat turn returns its response with a score record that
\* carries the six metric fields, also a graph-mode turn that could not
\* reach the store.
C6_EveryTurnHasScores ==
    returned.status = "200" =>
        /\ returned.body.crs_scores # NoScores
        /\ MetricFields \subseteq DOMAIN returned.body.crs_scores

\* C7: a failed graph write is caught where the write is made and logged;
\* the turn goes on to the generation service and returns its response
\* with a score record, never the failure.
C7_WriteFailureNonFatal ==
    /\ \A s \in Slots :
          req[s].write = "failed" =>
              /\ req[s].pc = "generate"
              /\ "warning: Graph write failed" \in req[s].logged
    /\ (returned.status = "200" /\ returned.turn.write = "failed") =>
          /\ "warning: Graph write failed" \in returned.turn.logged
          /\ "error: Graph retrieval failed" \notin returned.turn.logged
          /\ returned.turn.generated
          /\ returned.body.response \in Responses
          /\ MetricFields \subseteq DOMAIN returned.body.crs_scores

C7_Witness ==
    /\ returned.status = "200"
    /\ returned.turn.write = "failed"
    /\ returned.turn.memory = "open"
    /\ returned.turn.generated
    /\ returned.body.crs_scores.composite_score > 0

\* the rows of a merged context all come from events of user u in graph g
RowsFromStore(g, u, context) ==
    \A i \in 1..Len(context.past_events) :
        \E e \in g.events, usr \in g.users, r \in g.edges :
            /\ <<e.type, e.timestamp>> = RowKey(context.past_events[i])
            /\ usr.uid = u /\ r.src = usr.id /\ r.dst = e.id

\* C8: in a graph-mode turn the write starts only after the retrieval has
\* completed and its retriever is closed; the merged context is fixed from
\* then on and holds only events that were in the store before the write,
\* whatever other turns of the same user run in between.
C8_ReadThenWrite ==
    [][\A s \in Slots :
          /\ req'[s].write # "none" =>
                 /\ "graph_context" \in DOMAIN req'[s].locals
                 /\ req'[s].retrieval = "ok"
                 /\ req'[s].retriever = "closed"
          /\ (req[s].pc = "write" /\ req'[s].pc # "write") =>
                 /\ "graph_context" \in DOMAIN req[s].locals
                 /\ RowsFromStore(graph, req[s].user, req[s].locals.graph_context)
                 /\ req'[s].locals = req[s].locals
          /\ ("graph_context" \in DOMAIN req[s].locals /\ req'[s].pc # "idle")
                 => req'[s].locals = req[s].locals]_vars

C8_Witness ==
    \E s, t \in Slots :
        /\ s # t
        /\ req[s].pc = "generate"
        /\ req[s].write = "failed"
        /\ Len(req[s].locals.graph_context.past_events) >= 2
        /\ req[t].user = req[s].user
        /\ req[t].pc = "write"

\* ------------------------------------------------------------------------
\* Properties of retrieve_context
\* ------------------------------------------------------------------------
\* the sessions the call opened for a channel
SessionsOf(channel) ==
    {i \in 1..Len(output.sessions) : output.sessions[i].channel = channel}

EmptyContext == [past_events |-> <<>>, entity_count |-> 0, topic_count |-> 0]

\* C11: a channel whose input set is empty returns an empty result without
\* opening a session or issuing a query, whatever the other channel does
\* (the other channel, when its input is not empty, still opens its one
\* session); retrieve_context with both inputs empty returns
\* {past_events: [], entity_count: 0, topic_count: 0} with no store query
\* at all, and so cannot raise.
C11_EmptyChannelIssuesNoQuery ==
    /\ input.entities = {} =>
          /\ SessionsOf("entities") = {}
          /\ output.entity_ctx = <<>>
    /\ input.topics = {} =>
          /\ SessionsOf("topics") = {}
          /\ output.topic_ctx = <<>>
    /\ output.pc \in {"merge", "done"} =>
          /\ input.entities # {} => Cardinality(SessionsOf("entities")) = 1
          /\ input.topics # {} => Cardinality(SessionsOf("topics")) = 1
    /\ (input.entities = {} /\ input.topics = {}) =>
          /\ output.sessions = <<>>
          /\ output.pc # "raised"
          /\ output.pc = "done" => output.result = EmptyContext

\* the entity channel is skipped while the topic channel queries and finds rows
C11_Witness ==
    /\ output.pc = "done"
    /\ input.entities = {} /\ input.topics # {}
    /\ Len(output.sessions) = 1
    /\ output.result.entity_count = 0
    /\ output.result.topic_count > 0

\* ------------------------------------------------------------------------
\* Properties of the context text
\* ------------------------------------------------------------------------
\* the prompt that embeds context_text as its memory lines (graph mode)
GraphPromptOf(context_text, query) ==
    (IF context_text = "" THEN ""
     ELSE "Memory Context:\n" \o context_text \o "\n\n")
    \o "User Query:\n" \o query

\* the prompt that embeds the rendered buffer (baseline mode)
BaselinePromptOf(context_text, query) ==
    context_text \o "\n\nUser Query:\n" \o query

\* C12: in both modes the context text passed to the CRS evaluator is the
\* context text placed in the prompt sent to the generator: in graph mode
\* the lines of _format_graph_context are the memory lines build_prompt
\* embeds (none at all when the text is empty), in baseline mode both are
\* the same rendering of the buffer.
C12_EvaluatedContextIsPromptContext ==
    (returned # NoResponse /\ returned.turn.generated) =>
        LET t == returned.turn
        IN  t.prompt = IF t.mode = "graph"
                       THEN GraphPromptOf(t.context_text, t.message)
                       ELSE BaselinePromptOf(t.context_text, t.message)

\* a graph-mode turn whose context has entity lines and a summary line
C12_Witness ==
    /\ returned # NoResponse /\ returned.turn.generated
    /\ returned.turn.mode = "graph"
    /\ returned.turn.context_text # ""
    /\ Get(returned.turn.locals, "graph_context", EmptyContext).past_events # <<>>

\* ------------------------------------------------------------------------
\* Properties of _format_graph_context
\* ------------------------------------------------------------------------
\* the rows of past_events that carry an entity field, in row order
RowsWithEntity(past_events) ==
    LET Carries(row) == "entity" \in DOMAIN row
    IN  SelectSeq(past_events, Carries)

\* the summary line for each combination of counts
SummaryFor(entity_count, topic_count) ==
    CASE entity_count > 0 /\ topic_count > 0 ->
            <<"- The conversation includes " \o ToString(entity_count)
                \o " distinct entities and " \o ToString(topic_count)
                \o " topics.">>
      [] entity_count > 0 /\ topic_count = 0 ->
            <<"- The conversation includes " \o ToString(entity_count)
                \o " distinct entities.">>
      [] entity_count = 0 /\ topic_count > 0 ->
            <<"- The conversation includes " \o ToString(topic_count)
                \o " topics.">>
      [] OTHER -> <<>>

\* C13: _format_graph_context emits one line per past_events row that
\* carries an entity field (none for a topic-only row), in row order, then
\* one summary line if and only if entity_count > 0 or topic_count > 0,
\* holding only the clauses whose count is positive, joined with "and"; a
\* merged context with no entity row and both counts zero gives "".
C13_FormatGraphContext ==
    lastCall.op = "_format_graph_context" =>
        LET context == lastCall.context
            rows == RowsWithEntity(context.past_events)
            lines == [i \in 1..Len(rows) |->
                         "- Previously, the user mentioned the entity \""
                             \o rows[i].entity \o "\" in a query."]
        IN  /\ lastCall.text =
                   JoinNL(lines \o SummaryFor(context.entity_count,
                                              context.topic_count))
            /\ (rows = <<>> /\ context.entity_count = 0
                    /\ context.topic_count = 0) => lastCall.text = ""

\* a context of one entity row followed by two topic-only rows
C13_Witness ==
    /\ lastCall.op = "_format_graph_context"
    /\ Len(RowsWithEntity(lastCall.context.past_events)) = 1
    /\ Len(lastCall.context.past_events) = 3
    /\ lastCall.context.topic_count = 2

\* ------------------------------------------------------------------------
\* Properties of the graph writes
\* ------------------------------------------------------------------------
\* the relationships that lead from a User node to event e
OwnershipEdges(g, e) ==
    {r \in g.edges : r.dst = e.id /\ \E u \in g.users : u.id = r.src}

\* the users that own event e
OwnersOf(g, e) ==
    {u \in g.users : \E r \in g.edges : r.src = u.id /\ r.dst = e.id}

\* C14: after any sequence of write operations, also one cut short by a
\* storage failure between two of its steps, every Event node is owned by
\* exactly one User: exactly one relationship leads from a User to it.
C14_EveryEventHasOneOwner ==
    \A e \in graph.events : Cardinality(OwnershipEdges(graph, e)) = 1

UniqueNodes(g) ==
    /\ \A a, b \in g.users : a.uid = b.uid => a = b
    /\ \A a, b \in g.entities : a.name = b.name => a = b
    /\ \A a, b \in g.topics : a.name = b.name => a = b

\* every mentions edge ends at the one Entity node of its name, every
\* asked_about edge of an event at the one Topic node of its name
SharedTargets(g) ==
    \A r \in g.edges :
        /\ r.rel = "MENTIONS" => \E en \in g.entities : en.id = r.dst
        /\ (r.rel = "ASKED_ABOUT" /\ \E e \in g.events : e.id = r.src) =>
              \E t \in g.topics : t.id = r.dst

\* C15: after any sequence of writes for any users the graph holds at most
\* one User node per user id, one Entity node per entity name and one Topic
\* node per topic name; the events of all users that mention a name are
\* linked to that one node; no operation deletes a node.
C15_OneNodePerKey ==
    [][/\ UniqueNodes(graph') /\ SharedTargets(graph')
       /\ graph.users \subseteq graph'.users
       /\ graph.events \subseteq graph'.events
       /\ graph.entities \subseteq graph'.entities
       /\ graph.topics \subseteq graph'.topics]_vars

\* get_or_create_entity on a name that events of two users mention
C15_Witness ==
    /\ lastCall.op = "get_or_create_entity"
    /\ \E en \in graph.entities :
          /\ en.name = lastCall.name
          /\ \E e1, e2 \in graph.events :
                /\ OwnersOf(graph, e1) # {} /\ OwnersOf(graph, e2) # {}
                /\ OwnersOf(graph, e1) # OwnersOf(graph, e2)
                /\ \E r1, r2 \in graph.edges :
                      /\ r1.src = e1.id /\ r1.dst = en.id
                      /\ r2.src = e2.id /\ r2.dst = en.id

\* the relationships of one type between an event and the nodes of a name
LinksBetween(g, rel, event_id, nodes, name) ==
    {r \in g.edges :
        /\ r.src = event_id /\ r.rel = rel
        /\ \E x \in nodes : x.name = name /\ x.id = r.dst}

C17_PreviousContextChain ==
    \A e \in graph.events :
        LET out == {r \in graph.edges :
                       r.src = e.id /\ r.rel = "PREVIOUS_CONTEXT"}
        IN  /\ Cardinality(out) <= 1
            /\ \A r \in out :
                  \E p \in graph.events :
                     /\ p.id = r.dst /\ p # e
                     /\ p.timestamp <= e.timestamp
                     /\ OwnersOf(graph, p) = OwnersOf(graph, e)

\* ------------------------------------------------------------------------
\* Properties of evaluate
\* ------------------------------------------------------------------------
WeightSum(weights) ==
    weights.context_recall + weights.context_precision
    + weights.temporal_stability + weights.dependency_resolution
    + weights.context_decay_resistance

\* C18: zero-denominator policy of evaluate: context_recall is 1.0 whenever
\* the context entity set is empty, context_precision is 1.0 whenever the
\* response entity set is empty, dependency_resolution is 1.0 whenever the
\* query entity set is empty, whatever the other sets are; with all six
\* sets empty every sub-metric is 1.0 and the composite is the sum of the
\* weights (1.0 with the default weights).
C18_ZeroDenominatorPolicy ==
    output # NoValue =>
        /\ input.c_ext.entities = {} => output.context_recall = 1000
        /\ input.r_ext.entities = {} => output.context_precision = 1000
        /\ input.q_ext.entities = {} => output.dependency_resolution = 1000
        /\ (input.q_ext = NoExtraction /\ input.r_ext = NoExtraction
              /\ input.c_ext = NoExtraction) =>
              /\ output.context_recall = 1000
              /\ output.context_precision = 1000
              /\ output.temporal_stability = 1000
              /\ output.dependency_resolution = 1000
              /\ output.context_decay_resistance = 1000
              /\ output.composite_score = WeightSum(input.weights)
              /\ input.weights = DefaultWeights =>
                    output.composite_score = 1000

\* a response with entities scored against a context without any
C18_Witness ==
    /\ output # NoValue
    /\ input.c_ext.entities = {} /\ input.r_ext.entities # {}
    /\ input.q_ext.entities # {}
    /\ output.context_recall = 1000
    /\ output.context_precision = 0

\* the Jaccard index of two sets, in thousandths
Jaccard(A, B) ==
    IF A \cup B = {} THEN 1000
    ELSE Round3(Ratio(Cardinality(A \cap B), Cardinality(A \cup B)))

\* the inputs of a call with the two sides of the topic comparison swapped
SwappedTopics(q_ext, r_ext, c_ext) ==
    [q_ext |-> [q_ext EXCEPT !.topics = r_ext.topics],
     r_ext |-> [r_ext EXCEPT !.topics = q_ext.topics \cup c_ext.topics],
     c_ext |-> [c_ext EXCEPT !.topics = {}]]

\* C19: temporal_stability is the Jaccard index of the response topic set
\* and the union of the query and context topic sets: swapping the two
\* sides leaves it unchanged, it is 1.0 when both sides are empty, 0.0 when
\* exactly one side is empty, and 1.0 exactly when the two sides are equal.
C19_StabilityIsJaccard ==
    output # NoValue =>
        LET response == input.r_ext.topics
            target == input.q_ext.topics \cup input.c_ext.topics
            swapped == SwappedTopics(input.q_ext, input.r_ext, input.c_ext)
        IN  /\ output.temporal_stability = Jaccard(response, target)
            /\ output.temporal_stability =
                  evaluate(input.weights, swapped.q_ext, swapped.r_ext,
                           swapped.c_ext).temporal_stability
            /\ (response = {} /\ target = {}) =>
                  output.temporal_stability = 1000
            /\ ((response = {}) # (target = {})) =>
                  output.temporal_stability = 0
            /\ output.temporal_stability = 1000 <=> response = target

\* the response holds one of the two topics of query and context
C19_Witness ==
    /\ output # NoValue
    /\ Cardinality(input.r_ext.topics) = 1
    /\ input.q_ext.topics # input.c_ext.topics
    /\ input.r_ext.topics \subseteq input.q_ext.topics \cup input.c_ext.topics
    /\ output.temporal_stability = 500

\* weights (thousandths) times returned sub-metrics (thousandths)
WeightedSumOfReturned(weights, scores) ==
    weights.context_recall * scores.context_recall
    + weights.context_precision * scores.context_precision
    + weights.temporal_stability * scores.temporal_stability
    + weights.dependency_resolution * scores.dependency_resolution
    + weights.context_decay_resistance * scores.context_decay_resistance

Abs(x) == IF x < 0 THEN -x ELSE x

\* the rounding tolerance in millionths: half a thousandth for the rounded
\* composite and half a thousandth, weighted, for each rounded sub-metric
Tolerance(weights) == 500 + (WeightSum(weights) + 1) \div 2

\* C20: for any weights summing to 1 the composite_score returned by
\* evaluate equals the weighted sum of the five returned (rounded to three
\* decimals) sub-metrics within the rounding tolerance (0.001); the weights
\* are applied as given, never renormalized, so for weights of any sum the
\* composite stays within the tolerance of that weighted sum.
C20_CompositeIsWeightedSum ==
    output # NoValue =>
        /\ Abs(1000 * output.composite_score
               - WeightedSumOfReturned(input.weights, output))
              <= Tolerance(input.weights)
        /\ WeightSum(input.weights) = 1000 => Tolerance(input.weights) = 1000

\* weights summing to 1, sub-metrics that rounding changed, and a composite
\* that differs from the weighted sum of the rounded sub-metrics
C20_Witness ==
    /\ output # NoValue
    /\ input.weights = SkewedWeights
    /\ output.context_recall = 333
    /\ output.dependency_resolution = 333
    /\ 1000 * output.composite_score
          # WeightedSumOfReturned(input.weights, output)

\* the five sub-metrics of a score record
SubMetrics ==
    {"context_recall", "context_precision", "temporal_stability",
     "dependency_resolution", "context_decay_resistance"}

\* C21: for every query, response and context entity and topic sets each
\* of the five sub-metrics returned by evaluate lies in [0, 1],
\* context_decay_resistance is always 1.0, and with the default weights the
\* composite score lies in [0, 1].
C21_MetricsInUnitInterval ==
    output # NoValue =>
        /\ \A m \in SubMetrics : output[m] >= 0 /\ output[m] <= 1000
        /\ output.context_decay_resistance = 1000
        /\ input.weights = DefaultWeights =>
              output.composite_score >= 0 /\ output.composite_score <= 1000

\* default weights, a response that shares no entity with the query or the
\* context and no topic with them: only the decay term is left
C21_Witness ==
    /\ output # NoValue
    /\ input.weights = DefaultWeights
    /\ output.context_recall = 0 /\ output.context_precision = 0
    /\ output.temporal_stability = 0 /\ output.dependency_resolution = 0
    /\ output.composite_score = 100

\* ------------------------------------------------------------------------
\* Properties of the evaluator object
\* ------------------------------------------------------------------------
\* C22: no evaluator operation raises for well-typed input: for every
\* weights dictionary passed at construction, an empty one or one that
\* omits metric names included, and every extraction result, evaluate
\* returns a score record with a numeric composite (the one exception it
\* may end with is that of the extraction call).
C22_EvaluateNeverRaises ==
    /\ output.raised \in {"none", "extraction failure"}
    /\ output.pc = "done" => "composite_score" \in DOMAIN output.scores


\* the texts of the first n extract_func calls of an evaluation
FirstCalls(n) ==
    SubSeq(<<input.query_text, input.response_text, input.context_text>>,
           1, n)

\* C23: if the extraction call fails for the query, the response or the
\* context text, evaluate does not catch the failure: the call ends with
\* it, no score record is produced, the failing call is not repeated and
\* no later extraction call of that evaluation is issued.
C23_ExtractionFailurePropagates ==
    output.raised = "extraction failure" =>
        /\ output.pc = "raised"
        /\ output.scores = NoValue
        /\ Len(output.calls) = Len(output.extractions) + 1
        /\ output.calls = FirstCalls(Len(output.calls))

\* the extraction of the response text fails after that of the query
C23_Witness ==
    /\ output.raised = "extraction failure"
    /\ Len(output.calls) = 2
    /\ Len(output.extractions) = 1
    /\ input.query_text # input.response_text

\* C26: evaluate is pure and deterministic: it calls the extraction
\* function exactly three times, for the query, the response and the
\* context text in that order; it changes neither the evaluator's weights
\* nor any shared state; a second evaluation of the same inputs returns the
\* same metric values and the same entity and topic sets.
C26_EvaluatePure ==
    /\ output.pc \in {"score", "done"} => output.calls = FirstCalls(3)
    /\ output.pc = "extract" => output.calls = FirstCalls(output.step - 1)
    /\ output.pc # "new" => output.weights = CRSEvaluatorInit(input.arg)
    /\ USER_MEMORY = << >> /\ graph = EmptyGraph
    /\ (output.pc = "done" /\ output.previous # NoValue) =>
          output.scores = output.previous

\* the second evaluation of three different texts has returned
C26_Witness ==
    /\ output.pc = "done"
    /\ output.evaluations = 2
    /\ output.previous # NoValue
    /\ output.scores.composite_score < 1000
    /\ input.response_text # input.context_text
    /\ input.query_text # input.response_text

\* ------------------------------------------------------------------------
\* Properties of the retrieved rows
\* ------------------------------------------------------------------------
\* the (event, node) pairs a channel may report for user_id: the event is
\* owned by that user and linked by rel to a node with one of the names
OwnPaths(g, user_id, rel, targets, names) ==
    {p \in g.events \X targets :
        /\ \E u \in OwnersOf(g, p[1]) : u.uid = user_id
        /\ p[2].name \in names
        /\ \E r \in g.edges :
              r.src = p[1].id /\ r.rel = rel /\ r.dst = p[2].id}

\* C24: retrieve_context(u, E, T) returns only rows of events owned by
\* user u: each row of a channel is the row of one of u's own events, and a
\* channel has no more rows than u's events have links to the named nodes,
\* also where another user's events mention the same Entity or Topic node
\* and where written events have no owner.
C24_OnlyOwnEvents ==
    LET entity_paths == OwnPaths(graph, input.user_id, "MENTIONS",
                                 graph.entities, input.entities)
        topic_paths == OwnPaths(graph, input.user_id, "ASKED_ABOUT",
                                graph.topics, input.topics)
    IN  /\ Len(output.entity_ctx) <= Cardinality(entity_paths)
        /\ Len(output.topic_ctx) <= Cardinality(topic_paths)
        /\ \A i \in 1..Len(output.entity_ctx) :
              \E p \in entity_paths :
                 output.entity_ctx[i] =
                    [type |-> p[1].type, timestamp |-> p[1].timestamp,
                     entity |-> p[2].name]
        /\ \A i \in 1..Len(output.topic_ctx) :
              \E p \in topic_paths :
                 output.topic_ctx[i] =
                    [type |-> p[1].type, timestamp |-> p[1].timestamp,
                     topic |-> p[2].name]

\* u2 asks for an entity that two events of u1 and an ownerless event
\* mention too, and gets the one row of its own event
C24_Witness ==
    /\ output.pc = "done"
    /\ input.user_id = "u2"
    /\ graph = WrittenGraph
    /\ "Neo4j" \in input.entities
    /\ Len(output.entity_ctx) = 1
    /\ Cardinality({r \in graph.edges :
                       r.rel = "MENTIONS" /\ r.dst = 6}) = 4

\* C30: for every result of retrieve_context(u, E, T, max_events):
\* entity_count <= max_events, topic_count <= max_events, past_events is
\* no longer than entity_count + topic_count, and the formatter emits at
\* most entity_count entity lines for it.
C30_CountsBounded ==
    output.pc = "done" =>
        /\ output.result.entity_count <= input.max_events
        /\ output.result.topic_count <= input.max_events
        /\ Len(output.result.past_events)
              <= output.result.entity_count + output.result.topic_count
        /\ Len(EntityLines(output.result.past_events))
              <= output.result.entity_count

\* the store holds more matching rows than max_events and the entity
\* channel returns exactly max_events of them
C30_Witness ==
    /\ output.pc = "done"
    /\ output.result.entity_count = input.max_events
    /\ Cardinality(OwnPaths(graph, input.user_id, "MENTIONS",
                            graph.entities, input.entities))
          > input.max_events

\* ------------------------------------------------------------------------
\* Properties of a chat turn's connections, strategies and failed reads
\* ------------------------------------------------------------------------
\* C25: every store connection opened during a chat turn, the retriever's
\* and the memory writer's, is closed on every exit path of the turn:
\* normal return, exception during retrieval or prompt building, exception
\* during the write.
C25_ConnectionsClosedOnExit ==
    returned # NoResponse =>
        /\ returned.turn.retriever \in {"none", "closed"}
        /\ returned.turn.memory \in {"none", "closed"}


\* the rendering of a non-empty history h, oldest entry first
RenderedHistory(h) ==
    JoinNL(<<"Previous conversation:">> \o [i \in 1..Len(h) |-> "- " \o h[i]])

\* the baseline step of slot s: the rendered text ends with the turn's own
\* message, which is the newest entry of the buffer
BaselineStepRendersOwnMessage(s) ==
    (req[s].pc = "baseline" /\ req'[s].pc = "generate") =>
        LET h == USER_MEMORY'[req[s].user]
            baseline_context == req'[s].locals["baseline_context"]
        IN  /\ h # <<>> /\ h[Len(h)] = req[s].message
            /\ baseline_context = RenderedHistory(h)
            /\ baseline_context # ""
            /\ req'[s].prompt =
                  BaselinePromptOf(baseline_context, req[s].message)

\* the graph step of slot s that builds the context: no write of the turn
\* has been attempted and the store is as it was
GraphContextPrecedesWrite(s) ==
    (req[s].retrieval # "ok" /\ req'[s].retrieval = "ok") =>
        /\ req[s].write = "none" /\ req[s].memory = "none"
        /\ graph' = graph

\* C27: in a baseline-mode turn the incoming message is appended to the
\* user's buffer before the buffer is rendered, so the context text given
\* to the generator and to the evaluator is never empty and its last line
\* is the turn's own message; a graph-mode turn's context is built before
\* the turn's write and so never includes the current turn.
C27_BaselineIncludesOwnMessage ==
    [][/\ \A s \in Slots : /\ BaselineStepRendersOwnMessage(s)
                           /\ GraphContextPrecedesWrite(s)
       /\ (returned' # NoResponse /\ returned'.turn.generated
             /\ returned'.turn.mode = "baseline") =>
             /\ returned'.turn.context_text # ""
             /\ returned'.turn.context_text =
                   returned'.turn.locals["baseline_context"]]_vars

\* the second baseline turn of a user returns: its context holds the
\* earlier message and then its own
C27_Witness ==
    /\ returned # NoResponse /\ returned.turn.generated
    /\ returned.turn.mode = "baseline"
    /\ Len(Stored(returned.turn.user)) = 2
    /\ returned.turn.context_text = RenderedHistory(Stored(returned.turn.user))
    /\ Stored(returned.turn.user)[2] = returned.turn.message


\* the mode of the turn that slot s steps in
ModeOfStep(s) == IF req[s].pc = "idle" THEN req'[s].mode ELSE req[s].mode

\* the buffers after a baseline step for user u with message m: u's buffer
\* got m appended (an entry is created for a first message), no other entry
\* was created or changed
OnlyAppended(u, m) ==
    /\ DOMAIN USER_MEMORY' = DOMAIN USER_MEMORY \cup {u}
    /\ \A o \in DOMAIN USER_MEMORY \ {u} : USER_MEMORY'[o] = USER_MEMORY[o]
    /\ USER_MEMORY'[u] = DequeAppend(Stored(u), m)

\* C28: the two memory strategies are isolated: a graph-mode turn leaves
\* every user's conversation buffer unchanged; a baseline-mode turn opens
\* no graph store connection and leaves the graph unchanged;
\* build_baseline_context changes no buffer and creates no entry for a user
\* that has none (after the baseline step the buffers hold the appended
\* message and nothing else new).
C28_StrategiesIsolated ==
    [][\A s \in Slots :
          req'[s] # req[s] =>
             /\ ModeOfStep(s) = "graph" => USER_MEMORY' = USER_MEMORY
             /\ ModeOfStep(s) = "baseline" =>
                   /\ graph' = graph
                   /\ req'[s].retriever = "none" /\ req'[s].memory = "none"
                   /\ returned' # returned =>
                         /\ returned'.turn.retriever = "none"
                         /\ returned'.turn.memory = "none"
                   /\ req[s].pc = "baseline" =>
                         OnlyAppended(req[s].user, req[s].message)
                   /\ req[s].pc # "baseline" => USER_MEMORY' = USER_MEMORY]_vars

\* a graph-mode turn has returned while a user's buffer holds a message,
\* and no entry exists for the other user
C28_Witness ==
    /\ returned # NoResponse /\ returned.turn.generated
    /\ returned.turn.mode = "graph"
    /\ returned.turn.retriever = "closed"
    /\ \E u \in Users : Stored(u) # <<>>
    /\ DOMAIN USER_MEMORY # Users


\* C29: in a graph-mode turn whose retrieval, retriever construction or
\* prompt building raises, no graph write is attempted: the write step is
\* reached only after retrieval and prompt building succeeded, and a turn
\* whose read failed returns with no writer created and the graph as it
\* was.
C29_NoWriteAfterFailedRead ==
    [][/\ \A s \in Slots :
             /\ req'[s].pc = "write" =>
                   /\ req'[s].retrieval = "ok"
                   /\ req'[s].prompt =
                         build_prompt(req'[s].locals["graph_context"],
                                      req'[s].message)
             /\ req'[s].write # "none" => req'[s].retrieval = "ok"
       /\ (returned' # returned /\ returned'.turn.retrieval = "failed") =>
             /\ returned'.turn.write = "none"
             /\ returned'.turn.memory = "none"
             /\ graph' = graph]_vars

\* a turn returns after its retrieval raised, the retriever closed by the
\* finally
C29_Witness ==
    /\ returned # NoResponse
    /\ returned.turn.retrieval = "failed"
    /\ returned.turn.retriever = "closed"
    /\ returned.turn.write = "none"

====
